---- MODULE Spec2Model ----
(***************************************************************************)
(* goxsh: the interactive shell of src/goxsh.py (Python 2).                *)
(*                                                                         *)
(* A character is a one-character string, a line or a token a sequence of  *)
(* characters.  The tokenizer and the parser are generators in the source: *)
(* the parser pulls tokens from the tokenizer one at a time and the        *)
(* dispatch loop pulls commands from the parser one at a time, so the      *)
(* state between two commands of a line is the tokenizer's `remaining`.    *)
(***************************************************************************)
EXTENDS Integers, Sequences, FiniteSets, TLC

VARIABLES
    pc,           \* position: "start", "read", "next", "call", "login_user",
                  \*   "login_pass", "returned", "done", "crashed"
    credentials,  \* Exchange.__credentials: NoCredentials or <<username, password>>
    text,         \* prompt()'s local `text`, the prompt shown by raw_input
    line,         \* prompt()'s local `line`
    remaining,    \* _tokenize_command's local `remaining`
    cmd,          \* prompt()'s loop variable `cmd`
    args,         \* prompt()'s loop variable `args`
    username,     \* __cmd_login__'s local `username` while it prompts
    ran,          \* history: one record per command dispatched from `line`
    status,       \* history: how the last prompt() call ended, and what
                  \*   prompt() printed when raw_input met the end of input
    caret         \* history: offset shown by the last syntax error, or -1

vars ==
    <<pc, credentials, text, line, remaining, cmd, args, username, ran, status,
      caret>>

----------------------------------------------------------------------------
(* Bounds of the model *)

\* longest line drawn from the raw alphabet
MaxLen == 4
\* most command texts joined by ';' into one line
MaxCmds == 2
\* largest argument count of the arities the error text is computed for
MaxArity == 3

----------------------------------------------------------------------------
(* Python values *)

\* Python's None where a token or a command name is expected
None == <<"None">>

\* Exchange.__credentials = None
NoCredentials == << >>

Drop(s, n) == SubSeq(s, n + 1, Len(s))

Last(s) == s[Len(s)]

----------------------------------------------------------------------------
(* The token rules, Shell.__init__ *)

\* \s over the characters a line can hold
Whitespace == {" ", "\t", "\n"}

\* the class [\s\\\"';#] of the naked rule
NakedSpecial == Whitespace \cup {"\\", "\"", "'", ";", "#"}

\* re.compile(r"\\(.)").sub("\\g<1>", s): every backslash followed by a
\* character other than a newline is dropped and that character kept
RECURSIVE collapse_escapes(_)
collapse_escapes(s) ==
    IF s = << >> THEN << >>
    ELSE IF s[1] = "\\" /\ Len(s) >= 2 /\ s[2] # "\n"
         THEN <<s[2]>> \o collapse_escapes(Drop(s, 2))
         ELSE <<s[1]>> \o collapse_escapes(Tail(s))

\* characters consumed by (?:\\[\s\\\"';#]|[^\s\\\"';#])* at the start of s
RECURSIVE naked_run(_)
naked_run(s) ==
    IF s = << >> THEN 0
    ELSE IF s[1] = "\\"
         THEN IF Len(s) >= 2 /\ s[2] \in NakedSpecial
              THEN 2 + naked_run(Drop(s, 2))
              ELSE 0
         ELSE IF s[1] \notin NakedSpecial
              THEN 1 + naked_run(Tail(s))
              ELSE 0

\* the naked rule with * for +: the empty text matches
naked_match_star(s) == naked_run(s)

\* (?:...)+ : at least one repetition, greedy; -1 when there is no match
naked_match(s) == LET n == naked_run(s) IN IF n >= 1 THEN n ELSE -1

\* q(?:\\[\\q]|[^\\])*?q from index i on, the opening quote already matched:
\* the lazy star closes at the first q it stands on; -1 when there is no match
RECURSIVE quoted_scan(_, _, _)
quoted_scan(s, i, q) ==
    IF i > Len(s) THEN -1
    ELSE IF s[i] = q THEN i
    ELSE IF s[i] = "\\"
         THEN IF i + 1 <= Len(s) /\ s[i + 1] \in {"\\", q}
              THEN quoted_scan(s, i + 2, q)
              ELSE -1
         ELSE quoted_scan(s, i + 1, q)

quoted_match(s, q) ==
    IF s # << >> /\ s[1] = q THEN quoted_scan(s, 2, q) ELSE -1

\* characters consumed by .* : up to the next newline
RECURSIVE dot_star(_)
dot_star(s) ==
    IF s = << >> \/ s[1] = "\n" THEN 0 ELSE 1 + dot_star(Tail(s))

\* characters consumed by (?:\s|#.*)* at the start of s
RECURSIVE space_run(_)
space_run(s) ==
    IF s = << >> THEN 0
    ELSE IF s[1] \in Whitespace THEN 1 + space_run(Tail(s))
    ELSE IF s[1] = "#"
         THEN LET n == 1 + dot_star(Tail(s)) IN n + space_run(Drop(s, n))
         ELSE 0

space_match(s) == LET n == space_run(s) IN IF n >= 1 THEN n ELSE -1

semicolon_match(s) == IF s # << >> /\ s[1] = ";" THEN 1 ELSE -1

\* the rules of _token_types, in their order
TokenTypes == 1 .. 5

\* pattern.match(s) of rule k: the length of the match, or -1
pattern_match(k, s) ==
    CASE k = 1 -> naked_match(s)
      [] k = 2 -> quoted_match(s, "\"")
      [] k = 3 -> quoted_match(s, "'")
      [] k = 4 -> space_match(s)
      [] k = 5 -> semicolon_match(s)

\* token_sub without the [1:-1] of lines 163 and 167: the quotes stay
token_sub_keeping_quotes(k, matched) ==
    CASE k = 1 -> collapse_escapes(matched)
      [] k = 2 -> collapse_escapes(matched)
      [] k = 3 -> collapse_escapes(matched)
      [] k = 4 -> None
      [] k = 5 -> matched

\* sub(raw_token) of rule k
token_sub(k, matched) ==
    CASE k = 1 -> collapse_escapes(matched)
      [] k = 2 -> collapse_escapes(SubSeq(matched, 2, Len(matched) - 1))
      [] k = 3 -> collapse_escapes(SubSeq(matched, 2, Len(matched) - 1))
      [] k = 4 -> None
      [] k = 5 -> matched

----------------------------------------------------------------------------
(* Shell._tokenize_command *)

\* the first rule of _token_types, from rule k on, that matches at the
\* start of rem, with the length of its match; rule 0 when none does
RECURSIVE first_match(_, _)
first_match(k, rem) ==
    IF k \notin TokenTypes THEN [rule |-> 0, len |-> -1]
    ELSE LET n == pattern_match(k, rem) IN
         IF n >= 0 THEN [rule |-> k, len |-> n] ELSE first_match(k + 1, rem)

\* one turn of `while remaining`, lines 195-206
tokenize_step(rem) ==
    LET m == first_match(1, rem) IN
    IF m.rule = 0
    THEN [found |-> FALSE, rule |-> 0, raw |-> << >>, token |-> None,
          remaining |-> rem]
    ELSE LET raw == SubSeq(rem, 1, m.len) IN
         [found |-> TRUE, rule |-> m.rule, raw |-> raw,
          token |-> token_sub(m.rule, raw),
          remaining |-> Drop(rem, m.len)]

\* list(_tokenize_command(s)): the whole token list, or the exception
RECURSIVE tokenize_all(_, _)
tokenize_all(rem, toks) ==
    IF rem = << >> THEN [exc |-> "none", tokens |-> toks, remaining |-> rem]
    ELSE LET t == tokenize_step(rem) IN
         IF ~t.found
         THEN [exc |-> "TokenizationError", tokens |-> toks, remaining |-> rem]
         ELSE IF Len(t.raw) = 0
         THEN [exc |-> "AssertionError", tokens |-> toks, remaining |-> rem]
         ELSE tokenize_all(t.remaining,
                           IF t.token # None THEN Append(toks, t.token) ELSE toks)

----------------------------------------------------------------------------
(* Shell._parse_tokens *)

\* parse_step with line 222 left out: the argument list is not emptied
\* after a command is yielded
parse_step_keeping_args(name, arglist, token) ==
    IF token = <<";">>
    THEN IF name # None
         THEN [cmd |-> None, args |-> arglist,
               yield |-> <<[cmd |-> name, args |-> arglist]>>]
         ELSE [cmd |-> name, args |-> arglist, yield |-> << >>]
    ELSE IF name = None
         THEN [cmd |-> token, args |-> arglist, yield |-> << >>]
         ELSE [cmd |-> name, args |-> Append(arglist, token), yield |-> << >>]

\* the body of `for token in tokens`
parse_step(name, arglist, token) ==
    IF token = <<";">>
    THEN IF name # None
         THEN [cmd |-> None, args |-> << >>,
               yield |-> <<[cmd |-> name, args |-> arglist]>>]
         ELSE [cmd |-> name, args |-> arglist, yield |-> << >>]
    ELSE IF name = None
         THEN [cmd |-> token, args |-> arglist, yield |-> << >>]
         ELSE [cmd |-> name, args |-> Append(arglist, token), yield |-> << >>]

\* list(_parse_tokens(tokens))
RECURSIVE parse_tokens(_, _, _)
parse_tokens(tokens, name, arglist) ==
    IF tokens = << >>
    THEN IF name # None THEN <<[cmd |-> name, args |-> arglist]>> ELSE << >>
    ELSE LET p == parse_step(name, arglist, Head(tokens)) IN
         p.yield \o parse_tokens(Tail(tokens), p.cmd, p.args)

\* next(commands) of `for (cmd, args) in commands`, line 297: the parser
\* generator runs, pulling tokens from the tokenizer generator, until it
\* yields a command, ends, or the tokenizer raises
RECURSIVE next_command(_, _, _)
next_command(rem, name, arglist) ==
    IF rem = << >>
    THEN IF name # None
         THEN [kind |-> "yield", cmd |-> name, args |-> arglist, remaining |-> rem]
         ELSE [kind |-> "StopIteration", cmd |-> None, args |-> << >>,
               remaining |-> rem]
    ELSE LET t == tokenize_step(rem) IN
         IF ~t.found
         THEN [kind |-> "TokenizationError", cmd |-> None, args |-> << >>,
               remaining |-> rem]
         ELSE IF Len(t.raw) = 0
         THEN [kind |-> "AssertionError", cmd |-> None, args |-> << >>,
               remaining |-> rem]
         ELSE IF t.token = None
         THEN next_command(t.remaining, name, arglist)
         ELSE LET p == parse_step(name, arglist, t.token) IN
              IF p.yield # << >>
              THEN [kind |-> "yield", cmd |-> p.yield[1].cmd,
                    args |-> p.yield[1].args, remaining |-> t.remaining]
              ELSE next_command(t.remaining, p.cmd, p.args)

----------------------------------------------------------------------------
(* The command table: the __cmd_*__ methods of Shell and MtGoxShell *)

w_exit == <<"e", "x", "i", "t">>
w_help == <<"h", "e", "l", "p">>
w_login == <<"l", "o", "g", "i", "n">>
w_logout == <<"l", "o", "g", "o", "u", "t">>
w_balance == <<"b", "a", "l", "a", "n", "c", "e">>
w_buy == <<"b", "u", "y">>
w_cancel == <<"c", "a", "n", "c", "e", "l">>
w_orders == <<"o", "r", "d", "e", "r", "s">>
w_profit == <<"p", "r", "o", "f", "i", "t">>
w_sell == <<"s", "e", "l", "l">>
w_ticker == <<"t", "i", "c", "k", "e", "r">>
w_withdraw == <<"w", "i", "t", "h", "d", "r", "a", "w">>

\* dir(self) filtered by _cmd_name, for a MtGoxShell
Commands ==
    {w_exit, w_help, w_login, w_logout, w_balance, w_buy, w_cancel,
     w_orders, w_profit, w_sell, w_ticker, w_withdraw}

\* the closure _unknown returns
unknown_1 == <<"_unknown_1">>

\* getattr(self, "__cmd_%s__" % cmd, default) with default = self._unknown(cmd):
\* a handler is named by its command
get_cmd_proc(name) == IF name \in Commands THEN name ELSE unknown_1

\* inspect.getargspec(proc), from the def lines: the positional parameters
\* (self included for a method), the number of defaults, and whether *args
getargspec(proc) ==
    CASE proc = w_exit     -> [args |-> <<"self">>, defaults |-> 0, varargs |-> FALSE]
      [] proc = w_help     -> [args |-> <<"self", "command">>, defaults |-> 1, varargs |-> FALSE]
      [] proc = w_login    -> [args |-> <<"self", "username">>, defaults |-> 1, varargs |-> FALSE]
      [] proc = w_logout   -> [args |-> <<"self">>, defaults |-> 0, varargs |-> FALSE]
      [] proc = w_balance  -> [args |-> <<"self">>, defaults |-> 0, varargs |-> FALSE]
      [] proc = w_buy      -> [args |-> <<"self", "amount", "price">>, defaults |-> 0, varargs |-> FALSE]
      [] proc = w_cancel   -> [args |-> <<"self", "kind", "order_id">>, defaults |-> 0, varargs |-> FALSE]
      [] proc = w_orders   -> [args |-> <<"self", "kind">>, defaults |-> 1, varargs |-> FALSE]
      [] proc = w_profit   -> [args |-> <<"self", "price">>, defaults |-> 0, varargs |-> FALSE]
      [] proc = w_sell     -> [args |-> <<"self", "amount", "price">>, defaults |-> 0, varargs |-> FALSE]
      [] proc = w_ticker   -> [args |-> <<"self">>, defaults |-> 0, varargs |-> FALSE]
      [] proc = w_withdraw -> [args |-> <<"self", "address", "amount">>, defaults |-> 0, varargs |-> FALSE]
      [] OTHER             -> [args |-> << >>, defaults |-> 0, varargs |-> TRUE]

\* _get_proc_arity with lines 276-277 left out: *args is not looked at
get_proc_arity_ignoring_varargs(proc) ==
    LET argspec == getargspec(proc)
        maximum == IF argspec.args = << >> THEN 0 ELSE Len(Tail(argspec.args))
        minimum == maximum - argspec.defaults
    IN  [min |-> minimum, max |-> maximum]

\* Shell._get_proc_arity; unbounded is the maximum None, here -1.
\* argspec.args[1:] of an empty list is the empty list
get_proc_arity(proc) ==
    LET argspec == getargspec(proc)
        maximum == IF argspec.args = << >> THEN 0 ELSE Len(Tail(argspec.args))
        minimum == maximum - argspec.defaults
    IN  [min |-> minimum, max |-> IF argspec.varargs THEN -1 ELSE maximum]

\* the test of line 302 with its upper half left out
arity_ok_without_maximum(arity, arg_count) == arity.min <= arg_count

\* the test of line 302
arity_ok(arity, arg_count) ==
    arity.min <= arg_count /\ (arity.max = -1 \/ arg_count <= arity.max)

\* arity_text and arg_text, lines 305-311
arity_text(arity) ==
    IF arity.min = arity.max THEN ToString(arity.min)
    ELSE IF arity.max = -1 THEN ToString(arity.min) \o "+"
    ELSE ToString(arity.min) \o "-" \o ToString(arity.max)

\* arg_text without the singular
arg_text_always_plural(arity) == "arguments"

arg_text(arity) == "argument" \o (IF arity_text(arity) = "1" THEN "" ELSE "s")

----------------------------------------------------------------------------
(* Exchange and MtGox *)

\* Exchange.have_credentials
have_credentials(creds) == creds # NoCredentials

\* get_username that knows of no credentials
get_username_of_nobody(creds) == << >>

\* Exchange.get_username; None is the empty result here, as the only use is
\* `get_username() or u""`
get_username(creds) == IF have_credentials(creds) THEN creds[1] ELSE << >>

\* set_credentials with lines 46-47 left out: the password is not looked at
set_credentials_unchecked_password(creds, user, password) ==
    IF Len(user) = 0
    THEN [exc |-> "ValueError", msg |-> <<"Empty username.">>, creds |-> creds]
    ELSE [exc |-> "none", msg |-> << >>, creds |-> <<user, password>>]

\* Exchange.set_credentials: the exception raised and the credentials after
set_credentials(creds, user, password) ==
    IF Len(user) = 0
    THEN [exc |-> "ValueError", msg |-> <<"Empty username.">>, creds |-> creds]
    ELSE IF Len(password) = 0
    THEN [exc |-> "ValueError", msg |-> <<"Empty password.">>, creds |-> creds]
    ELSE [exc |-> "none", msg |-> << >>, creds |-> <<user, password>>]

\* Exchange.unset_credentials
unset_credentials(creds) == NoCredentials

\* the methods an exchange object has: those of Exchange and of MtGox
ExchangeAttrs ==
    {"get_commission_rate", "get_username", "have_credentials",
     "set_credentials", "unset_credentials", "_get_headers", "_get_json_raw",
     "_get_json", "_postprocess", "buy", "cancel_order", "get_balance",
     "get_orders", "get_ticker", "sell", "withdraw"}

\* What the exchange can answer to one request: the transport fails
\* (urlopen or json.load raises), or a JSON object arrives that holds an
\* "error" message or not, and holds the fields the caller reads or not.
Replies ==
    {[transport |-> TRUE, error |-> << >>, complete |-> TRUE],
     [transport |-> TRUE, error |-> << >>, complete |-> FALSE],
     [transport |-> TRUE, error |-> <<"Must be logged in">>, complete |-> FALSE],
     [transport |-> TRUE, error |-> <<"insufficient funds">>, complete |-> FALSE],
     [transport |-> FALSE, error |-> << >>, complete |-> FALSE]}

\* _postprocess with lines 91-93 left out: every reported error is an
\* ExchangeError
postprocess_without_login_case(data) ==
    IF data.error # << >>
    THEN [exc |-> "ExchangeError", msg |-> data.error]
    ELSE [exc |-> "none", msg |-> << >>]

\* MtGox._postprocess
postprocess(data) ==
    IF data.error # << >>
    THEN IF data.error = <<"Must be logged in">>
         THEN [exc |-> "LoginError", msg |-> << >>]
         ELSE [exc |-> "ExchangeError", msg |-> data.error]
    ELSE [exc |-> "none", msg |-> << >>]

\* Exchange._get_json_raw: the exception raised, and whether a request was sent
get_json_raw(creds, auth, reply) ==
    IF auth /\ ~have_credentials(creds)
    THEN [exc |-> "NoCredentialsError", msg |-> << >>, sent |-> FALSE]
    ELSE IF ~reply.transport
    THEN [exc |-> "URLError", msg |-> << >>, sent |-> TRUE]
    ELSE [exc |-> postprocess(reply).exc, msg |-> postprocess(reply).msg,
          sent |-> TRUE]

----------------------------------------------------------------------------
(* The handlers.  Each gives the outcome of one call: the exception that    *)
(* leaves it, that exception's argument, whether a request was sent, what   *)
(* the handler printed, and the credentials after it.                       *)

\* no answer: no request was sent
NoReply == [transport |-> FALSE, error |-> << >>, complete |-> FALSE]

Outcome(exc, msg, sent, printed, creds) ==
    [exc |-> exc, msg |-> msg, sent |-> sent, printed |-> printed,
     creds |-> creds, reply |-> NoReply]

Result == << <<"result">> >>

Digits == {"0", "1", "2", "3", "4", "5", "6", "7", "8", "9"}

is_digits(s) == s # << >> /\ \A i \in 1 .. Len(s) : s[i] \in Digits

\* Decimal(s), for the integer numerals the lines of the model hold:
\* its sign, or "invalid" for InvalidOperation
Decimal(s) ==
    LET body == IF s # << >> /\ s[1] = "-" THEN Tail(s) ELSE s IN
    IF ~is_digits(body) THEN "invalid"
    ELSE IF \A i \in 1 .. Len(body) : body[i] = "0" THEN "zero"
    ELSE IF s[1] = "-" THEN "negative"
    ELSE "positive"

\* self._usd_re.match(amount), for amounts without a decimal point
usd_re_match(amount) ==
    amount # << >> /\ amount[1] = "$" /\ is_digits(Tail(amount))

\* exchange_call with an addition: credentials the exchange rejects are
\* unset
exchange_call_forgetting_rejected(creds, auth, reply) ==
    LET r == get_json_raw(creds, auth, reply)
        o == IF r.exc = "LoginError"
             THEN Outcome(r.exc, r.msg, r.sent, << >>, unset_credentials(creds))
             ELSE IF r.exc # "none"
             THEN Outcome(r.exc, r.msg, r.sent, << >>, creds)
             ELSE IF ~reply.complete
             THEN Outcome("KeyError", << >>, TRUE, << >>, creds)
             ELSE Outcome("none", << >>, TRUE, Result, creds)
    IN  [o EXCEPT !.reply = IF r.sent THEN reply ELSE NoReply]

\* a call that goes to the exchange and then reads fields of the answer;
\* a missing field is a KeyError
exchange_call(creds, auth, reply) ==
    LET r == get_json_raw(creds, auth, reply)
        o == IF r.exc # "none" THEN Outcome(r.exc, r.msg, r.sent, << >>, creds)
             ELSE IF ~reply.complete
             THEN Outcome("KeyError", << >>, TRUE, << >>, creds)
             ELSE Outcome("none", << >>, TRUE, Result, creds)
    IN  [o EXCEPT !.reply = IF r.sent THEN reply ELSE NoReply]

\* MtGoxShell.__cmd_balance__
cmd_balance(creds, arglist, reply) == exchange_call(creds, TRUE, reply)

\* MtGoxShell.__cmd_ticker__
cmd_ticker(creds, arglist, reply) == exchange_call(creds, FALSE, reply)

\* MtGoxShell.__cmd_withdraw__
cmd_withdraw(creds, arglist, reply) == exchange_call(creds, TRUE, reply)

\* MtGoxShell._do_exchange: a '$' amount is divided by the price first
do_exchange(creds, amount, price, reply) ==
    IF usd_re_match(amount) /\ Decimal(price) = "invalid"
    THEN Outcome("InvalidOperation", << >>, FALSE, << >>, creds)
    ELSE IF usd_re_match(amount) /\ Decimal(price) = "zero"
    THEN Outcome(IF Decimal(Tail(amount)) = "zero"
                 THEN "InvalidOperation" ELSE "DivisionByZero",
                 << >>, FALSE, << >>, creds)
    ELSE exchange_call(creds, TRUE, reply)

\* MtGoxShell.__cmd_buy__
cmd_buy(creds, arglist, reply) == do_exchange(creds, arglist[1], arglist[2], reply)

\* MtGoxShell.__cmd_sell__
cmd_sell(creds, arglist, reply) == do_exchange(creds, arglist[1], arglist[2], reply)

\* the try of __cmd_cancel__ and __cmd_orders__: `except KeyError` spans the
\* call and the printing, so a KeyError of any of them is reported as a
\* CommandError about the kind
order_kind_call(creds, kind, reply) ==
    LET o == exchange_call(creds, TRUE, reply) IN
    IF o.exc = "KeyError"
    THEN [o EXCEPT !.exc = "CommandError",
                   !.msg = <<"%s: Invalid order kind.">> \o kind]
    ELSE o

\* MtGoxShell.__cmd_cancel__
cmd_cancel(creds, arglist, reply) ==
    IF arglist[1] \notin {w_sell, w_buy}
    THEN Outcome("CommandError", <<"%s: Invalid order kind.">> \o arglist[1],
                 FALSE, << >>, creds)
    ELSE order_kind_call(creds, arglist[1], reply)

\* MtGoxShell.__cmd_orders__; kind is None without an argument
cmd_orders(creds, arglist, reply) ==
    IF arglist # << >> /\ arglist[1] \notin {w_sell, w_buy}
    THEN Outcome("CommandError", <<"%s: Invalid order kind.">> \o arglist[1],
                 FALSE, << >>, creds)
    ELSE order_kind_call(creds, IF arglist = << >> THEN None ELSE arglist[1], reply)

\* MtGoxShell.__cmd_profit__
cmd_profit(creds, arglist) ==
    IF Decimal(arglist[1]) \in {"invalid", "negative"}
    THEN Outcome("CommandError", <<"%s: Invalid price.">> \o arglist[1],
                 FALSE, << >>, creds)
    ELSE Outcome("none", << >>, FALSE, Result, creds)

\* Shell.__cmd_exit__
cmd_exit(creds, arglist) == Outcome("EOFError", << >>, FALSE, << >>, creds)

\* Shell.__cmd_logout__
cmd_logout(creds, arglist) ==
    Outcome("none", << >>, FALSE, << >>, unset_credentials(creds))

\* Shell._print_cmd_info: what it prints for one command; for a name that
\* is no command it builds the _unknown closure and does not call it
print_cmd_info(name) == IF name \in Commands THEN <<name>> ELSE << >>

\* Shell._get_cmds(): the sorted command names
get_cmds ==
    <<w_balance, w_buy, w_cancel, w_exit, w_help, w_login, w_logout,
      w_orders, w_profit, w_sell, w_ticker, w_withdraw>>

\* Shell.__cmd_help__: line 342 calls self._exchange.get_name() before
\* anything is printed
cmd_help(creds, arglist) ==
    IF "get_name" \notin ExchangeAttrs
    THEN Outcome("AttributeError", << >>, FALSE, << >>, creds)
    ELSE Outcome("none", << >>, FALSE,
                 IF arglist = << >> THEN get_cmds ELSE print_cmd_info(arglist[1]),
                 creds)

\* the closure _unknown_1
cmd_unknown(creds, name, arglist) ==
    Outcome("none", << >>, FALSE, << <<"%s: Unknown command.">> \o name >>, creds)

----------------------------------------------------------------------------
(* Exception handling of Shell.prompt and main *)

\* the classes named here that derive from Exception
ExceptionSubclasses ==
    {"ExchangeError", "NoCredentialsError", "LoginError", "TokenizationError",
     "CommandError", "ArityError", "EOFError", "ValueError", "KeyError",
     "AttributeError", "AssertionError", "TypeError", "URLError",
     "InvalidOperation", "DivisionByZero"}

\* the except clauses of the per-command try, lines 313-322: what is
\* printed, or "raise" when no clause matches
command_except(exc, msg) ==
    CASE exc = "ExchangeError" -> <<"Exchange error: %s">> \o msg
      [] exc = "CommandError" -> msg
      [] exc = "ArityError" -> msg
      [] exc = "NoCredentialsError" ->
            <<"No login credentials entered. Use the login command first.">>
      [] exc = "LoginError" ->
            <<"The exchange rejected the login credentials. Maybe you made a typo?">>
      [] OTHER -> <<"raise">>

\* the per-line try with lines 329-330 left out: no clause for Exception
prompt_except_without_catch_all(exc) ==
    CASE exc = "EOFError" -> "raise"
      [] exc = "TokenizationError" -> "print"
      [] exc = "KeyboardInterrupt" -> "blank"
      [] OTHER -> "raise"

\* the per-line try with lines 323-324 left out: EOFError is an Exception
\* like the others
prompt_except_without_eof_clause(exc) ==
    CASE exc = "TokenizationError" -> "print"
      [] exc = "KeyboardInterrupt" -> "blank"
      [] exc \in ExceptionSubclasses -> "traceback"
      [] OTHER -> "raise"

\* the except clauses of the per-line try, lines 323-330
prompt_except(exc) ==
    CASE exc = "EOFError" -> "raise"
      [] exc = "TokenizationError" -> "print"
      [] exc = "KeyboardInterrupt" -> "blank"
      [] exc \in ExceptionSubclasses -> "traceback"
      [] OTHER -> "raise"

\* the try of main, lines 488-492: where an exception that leaves prompt()
\* takes the program
main_except(exc) == IF exc = "EOFError" THEN "done" ELSE "crashed"

\* where control is once exception exc has left the per-command try
after_prompt(exc) ==
    IF prompt_except(exc) = "raise" THEN main_except(exc) ELSE "returned"

Running == [exc |-> "none", handled |-> "running", shown |-> << >>]

Idle == [exc |-> "none", handled |-> "", shown |-> << >>]

----------------------------------------------------------------------------
(* The lines a user types *)

Alphabet == {"a", " ", "\\", "\"", "'", ";", "#"}

\* every line of at most MaxLen characters of Alphabet
CharLines == UNION {[1 .. n -> Alphabet] : n \in 0 .. MaxLen}

w_a == <<"a">>
w_1 == <<"1">>
w_usd == <<"$", "1">>
w_escaped_semicolon == <<"\\", ";">>
w_empty_string == <<"\"", "\"">>
w_quote == <<"'">>

\* command texts: words to be joined by blanks
CmdTexts ==
    {<<w_exit>>, <<w_help>>, <<w_login>>, <<w_login, w_a>>, <<w_logout>>,
     <<w_balance>>, <<w_buy, w_usd, w_a>>, <<w_sell, w_usd, w_1>>,
     <<w_cancel, w_buy, w_1>>, <<w_cancel, w_a, w_1>>, <<w_orders>>,
     <<w_profit, w_1>>, <<w_profit, w_a>>, <<w_ticker>>,
     <<w_withdraw, w_a, w_1>>, <<w_buy>>, <<w_logout, w_a>>,
     <<w_login, w_empty_string>>, <<w_a, w_1>>,
     <<w_a, w_escaped_semicolon, w_a>>, <<w_quote>>, <<w_profit>>,
     <<w_help, w_a, w_a>>}

RECURSIVE join(_, _)
join(parts, sep) ==
    IF parts = << >> THEN << >>
    ELSE IF Len(parts) = 1 THEN parts[1]
    ELSE parts[1] \o sep \o join(Tail(parts), sep)

\* at most MaxCmds command texts, joined by ';'
CmdLines ==
    {join([i \in 1 .. Len(f) |-> join(f[i], <<" ">>)], <<";">>) :
        f \in UNION {[1 .. n -> CmdTexts] : n \in 1 .. MaxCmds}}

Lines == CharLines \cup CmdLines

\* what is typed at the prompts of login
TypedNames == {<< >>, w_a}

TypedPasswords == {<< >>, <<"p">>}

----------------------------------------------------------------------------
(* The state machine *)

\* The classes are a library: this is the state before either main() is
\* run or a MtGoxShell is made and driven by the loop of main.
\* Exchange.__init__ unsets the credentials.
Init ==
    /\ pc = "start"
    /\ credentials = unset_credentials(NoCredentials)
    /\ text = << >>
    /\ line = << >>
    /\ remaining = << >>
    /\ cmd = None
    /\ args = << >>
    /\ username = << >>
    /\ ran = << >>
    /\ status = Idle
    /\ caret = -1

\* what shell_map(u"mtgox") of line 485 does: shell_map is a dict, and a
\* dict is not callable
call_shell_map == "TypeError"

\* main(), lines 478-487: up to the first prompt
main ==
    /\ pc = "start"
    /\ pc' = IF call_shell_map = "none" THEN "read" ELSE "crashed"
    /\ status' = [exc |-> call_shell_map, handled |-> "raise", shown |-> << >>]
    /\ UNCHANGED <<credentials, text, line, remaining, cmd, args, username,
                   ran, caret>>

\* MtGoxShell(encoding) made directly, and the loop of lines 488-490 entered
run_shell ==
    /\ pc = "start"
    /\ pc' = "read"
    /\ UNCHANGED <<credentials, text, line, remaining, cmd, args, username,
                   ran, status, caret>>

\* `while True: sh.prompt()`: prompt() has returned and is called again;
\* its locals are gone
loop ==
    /\ pc = "returned"
    /\ pc' = "read"
    /\ text' = << >>
    /\ line' = << >>
    /\ remaining' = << >>
    /\ cmd' = None
    /\ args' = << >>
    /\ username' = << >>
    /\ ran' = << >>
    /\ status' = Idle
    /\ caret' = -1
    /\ UNCHANGED credentials

\* the prompt text of line 291
prompt_text(creds) == get_username(creds) \o <<"$", " ">>

\* raw_input returns line l, lines 291-296; the generators are made and
\* nothing of the line is tokenized yet
read(l) ==
    /\ pc' = "next"
    /\ text' = prompt_text(credentials)
    /\ line' = l
    /\ remaining' = l
    /\ ran' = << >>
    /\ status' = Running
    /\ caret' = -1
    /\ UNCHANGED <<credentials, cmd, args, username>>

\* the user types a line
read_line == pc = "read" /\ \E l \in Lines : read(l)

\* the prompt of a line ends with exception exc leaving the per-command
\* try or the generators
leave_prompt(exc) ==
    /\ pc' = after_prompt(exc)
    /\ status' = [exc |-> exc, handled |-> prompt_except(exc), shown |-> << >>]

\* raw_input raises EOFError, lines 293-295: "exit" is printed and
\* __cmd_exit__ raises EOFError again
read_eof ==
    /\ pc = "read"
    /\ text' = prompt_text(credentials)
    /\ LET exc == cmd_exit(credentials, << >>).exc IN
       /\ pc' = after_prompt(exc)
       /\ status' = [exc |-> exc, handled |-> prompt_except(exc),
                     shown |-> <<"exit">>]
    /\ UNCHANGED <<credentials, line, remaining, cmd, args, username, ran,
                   caret>>

\* the user interrupts raw_input
read_interrupt ==
    /\ pc = "read"
    /\ text' = prompt_text(credentials)
    /\ leave_prompt("KeyboardInterrupt")
    /\ UNCHANGED <<credentials, line, remaining, cmd, args, username, ran,
                   caret>>

\* the for statement of line 297 gets its next command
next_yield ==
    /\ pc = "next"
    /\ LET c == next_command(remaining, None, << >>) IN
       /\ c.kind = "yield"
       /\ cmd' = c.cmd
       /\ args' = c.args
       /\ remaining' = c.remaining
    /\ pc' = "call"
    /\ UNCHANGED <<credentials, text, line, username, ran, status, caret>>

\* the generators end: the for loop is over and prompt() returns
end_of_line ==
    /\ pc = "next"
    /\ LET c == next_command(remaining, None, << >>) IN
       /\ c.kind = "StopIteration"
       /\ remaining' = c.remaining
    /\ pc' = "returned"
    /\ status' = [exc |-> "none", handled |-> "return", shown |-> << >>]
    /\ UNCHANGED <<credentials, text, line, cmd, args, username, ran, caret>>

\* error_offset counted from the end of the line
error_offset_from_end(l, rem) == Len(rem)

\* the blanks before the '^' of the message, line 209
error_offset(l, rem) == Len(l) - Len(rem)

\* the tokenizer raises inside the for statement, lines 207-212
tokenize_error ==
    /\ pc = "next"
    /\ LET c == next_command(remaining, None, << >>) IN
       /\ c.kind \in {"TokenizationError", "AssertionError"}
       /\ leave_prompt(c.kind)
       /\ remaining' = c.remaining
       /\ caret' = IF c.kind = "TokenizationError"
                   THEN error_offset(line, c.remaining) ELSE -1
    /\ UNCHANGED <<credentials, text, line, cmd, args, username, ran>>

\* the history record of a dispatched command
Entry(c, a, invoked, o) ==
    [cmd |-> c, args |-> a, proc |-> get_cmd_proc(c), invoked |-> invoked,
     exc |-> o.exc, msg |-> o.msg, sent |-> o.sent, printed |-> o.printed,
     creds |-> o.creds, reply |-> o.reply,
     out |-> command_except(o.exc, o.msg)]

\* the body of the for loop once the command's outcome o is known: the
\* per-command except clauses, then the next turn or the per-line ones
conclude(o) ==
    /\ credentials' = o.creds
    /\ IF o.exc = "none" \/ command_except(o.exc, o.msg) # <<"raise">>
       THEN pc' = "next" /\ status' = Running
       ELSE leave_prompt(o.exc)

\* the ArityError of lines 304-312
arity_error(c, a, creds) ==
    LET arity == get_proc_arity(get_cmd_proc(c)) IN
    Outcome("ArityError",
            <<"Expected " \o arity_text(arity) \o " " \o arg_text(arity)
              \o ", got " \o ToString(Len(a)) \o ".">>,
            FALSE, << >>, creds)

\* the argument count is outside the handler's bounds
arity_fail ==
    /\ pc = "call"
    /\ ~arity_ok(get_proc_arity(get_cmd_proc(cmd)), Len(args))
    /\ ran' = Append(ran, Entry(cmd, args, FALSE,
                                arity_error(cmd, args, credentials)))
    /\ conclude(arity_error(cmd, args, credentials))
    /\ UNCHANGED <<text, line, remaining, cmd, args, username, caret>>

\* lines 299-303: the handler is found, the argument count is within its
\* bounds and proc(*args) is called
Called(proc_name) ==
    /\ pc = "call"
    /\ get_cmd_proc(cmd) = proc_name
    /\ arity_ok(get_proc_arity(proc_name), Len(args))

\* proc(*args) of a handler that asks the user nothing, with outcome o
invoke(proc_name, o) ==
    /\ Called(proc_name)
    /\ ran' = Append(ran, Entry(cmd, args, TRUE, o))
    /\ conclude(o)
    /\ UNCHANGED <<text, line, remaining, cmd, args, username, caret>>

do_unknown == invoke(unknown_1, cmd_unknown(credentials, cmd, args))

do_exit == invoke(w_exit, cmd_exit(credentials, args))

do_help == invoke(w_help, cmd_help(credentials, args))

do_logout == invoke(w_logout, cmd_logout(credentials, args))

do_profit == invoke(w_profit, cmd_profit(credentials, args))

do_balance == \E reply \in Replies :
    invoke(w_balance, cmd_balance(credentials, args, reply))

do_buy == \E reply \in Replies :
    invoke(w_buy, cmd_buy(credentials, args, reply))

do_sell == \E reply \in Replies :
    invoke(w_sell, cmd_sell(credentials, args, reply))

do_cancel == \E reply \in Replies :
    invoke(w_cancel, cmd_cancel(credentials, args, reply))

do_orders == \E reply \in Replies :
    invoke(w_orders, cmd_orders(credentials, args, reply))

do_ticker == \E reply \in Replies :
    invoke(w_ticker, cmd_ticker(credentials, args, reply))

do_withdraw == \E reply \in Replies :
    invoke(w_withdraw, cmd_withdraw(credentials, args, reply))

\* Shell.__cmd_login__ is entered, lines 346-348: it asks for the username
\* when none was given, else for the password
do_login ==
    /\ Called(w_login)
    /\ username' = IF args = << >> THEN << >> ELSE args[1]
    /\ pc' = IF username' = << >> THEN "login_user" ELSE "login_pass"
    /\ ran' = Append(ran, Entry(cmd, args, TRUE,
                  Outcome("running", << >>, FALSE, << >>, credentials)))
    /\ UNCHANGED <<credentials, text, line, remaining, cmd, args, status,
                   caret>>

\* the login handler ends with outcome o
login_ends(o) ==
    /\ ran' = [ran EXCEPT ![Len(ran)] = Entry(cmd, args, TRUE, o)]
    /\ conclude(o)
    /\ username' = << >>
    /\ UNCHANGED <<text, line, remaining, cmd, args, caret>>

\* the loop of lines 349-350: one answer to "Username: "
login_username(typed) ==
    /\ pc = "login_user"
    /\ username' = typed
    /\ pc' = IF typed # << >> THEN "login_pass" ELSE "login_user"
    /\ UNCHANGED <<credentials, text, line, remaining, cmd, args, ran, status,
                   caret>>

\* the loop of lines 357-359: one answer to getpass; set_credentials after
\* the first answer that is not empty
login_password(typed) ==
    /\ pc = "login_pass"
    /\ IF typed = << >>
       THEN UNCHANGED vars
       ELSE login_ends(
              LET r == set_credentials(credentials, username, typed) IN
              Outcome(r.exc, r.msg, FALSE, << >>, r.creds))

\* raw_input or getpass of login meets the end of input, or the user
\* interrupts it
login_aborted(exc) ==
    /\ pc \in {"login_user", "login_pass"}
    /\ login_ends(Outcome(exc, << >>, FALSE, << >>, credentials))

Next ==
    \/ main
    \/ run_shell
    \/ loop
    \/ read_line
    \/ read_eof
    \/ read_interrupt
    \/ next_yield
    \/ end_of_line
    \/ tokenize_error
    \/ arity_fail
    \/ do_unknown
    \/ do_exit
    \/ do_help
    \/ do_logout
    \/ do_profit
    \/ do_balance
    \/ do_buy
    \/ do_sell
    \/ do_cancel
    \/ do_orders
    \/ do_ticker
    \/ do_withdraw
    \/ do_login
    \/ \E typed \in TypedNames : login_username(typed)
    \/ \E typed \in TypedPasswords : login_password(typed)
    \/ \E exc \in {"EOFError", "KeyboardInterrupt"} : login_aborted(exc)

Spec == Init /\ [][Next]_vars

----------------------------------------------------------------------------
(* Vocabulary of the properties *)

\* the commands dispatched from the current line, in order
DispatchedCommands == [i \in 1 .. Len(ran) |-> [cmd |-> ran[i].cmd, args |-> ran[i].args]]

\* prompt() has returned
Returned == pc = "returned"

\* prompt() has returned because the for loop ran to its end
LineFinished == pc = "returned" /\ status.handled = "return"

\* a command of the line is still waiting behind the tokenizer's position
CommandLeft == next_command(remaining, None, << >>).kind = "yield"

\* the positions inside the loop of main
LoopPositions == {"read", "next", "call", "login_user", "login_pass", "returned"}

\* the handlers that go to the exchange with credentials
CredentialCommands == {w_balance, w_buy, w_sell, w_cancel, w_orders, w_withdraw}

\* the argument bounds the commands declare: exit, logout, balance and
\* ticker take none, help, login and orders at most one, profit one, buy,
\* sell, cancel and withdraw two, and the fallback any number (max -1)
DeclaredArity(proc) ==
    IF proc \in {w_exit, w_logout, w_balance, w_ticker} THEN [min |-> 0, max |-> 0]
    ELSE IF proc \in {w_help, w_login, w_orders} THEN [min |-> 0, max |-> 1]
    ELSE IF proc = w_profit THEN [min |-> 1, max |-> 1]
    ELSE IF proc \in {w_buy, w_sell, w_cancel, w_withdraw} THEN [min |-> 2, max |-> 2]
    ELSE [min |-> 0, max |-> -1]

\* the tokens of s with the rule that made each, while the rules match
RECURSIVE Lexemes(_)
Lexemes(s) ==
    IF s = << >> THEN << >>
    ELSE LET t == tokenize_step(s) IN
         IF ~t.found THEN << >>
         ELSE (IF t.token = None THEN << >>
               ELSE <<[token |-> t.token, separator |-> t.rule = 5]>>)
              \o Lexemes(t.remaining)

\* the segments of a sequence of marked tokens between its separators,
\* the empty ones left out: the first token of a segment is the command
\* name and the rest its arguments
SegmentsOf(lex) ==
    LET n == Len(lex)
        IsStart(i) == ~lex[i].separator /\ (i = 1 \/ lex[i - 1].separator)
        EndOf(i) == CHOOSE j \in i .. n :
                       /\ \A k \in i .. j : ~lex[k].separator
                       /\ (j = n \/ lex[j + 1].separator)
        starts == {i \in 1 .. n : IsStart(i)}
        Nth(k) == CHOOSE i \in starts : Cardinality({j \in starts : j < i}) = k - 1
    IN  [k \in 1 .. Cardinality(starts) |->
            [cmd |-> lex[Nth(k)].token,
             args |-> [m \in 1 .. EndOf(Nth(k)) - Nth(k) |-> lex[Nth(k) + m].token]]]

\* a token sequence marked the way the parser sees it: the separator tokens
\* are the tokens ";"
Marked(tokens) ==
    [i \in 1 .. Len(tokens) |-> [token |-> tokens[i], separator |-> tokens[i] = <<";">>]]

----------------------------------------------------------------------------
(* C1 *)

\* C1: when the handler of a command fails with an error other than the
\* end-of-input signal, the commands after it on the line are still
\* executed: prompt() never returns after such a failure with a command of
\* the line left unexecuted.
C1_SiblingsStillRun ==
    (Returned /\ ran # << >> /\ Last(ran).exc \in ExceptionSubclasses \ {"EOFError"})
        => ~CommandLeft

----------------------------------------------------------------------------
(* C2 *)

\* C2: when the tokenization of a line fails with a syntax error, no
\* command handler was invoked for that line.
C2_NoHandlerOnSyntaxError ==
    status.exc = "TokenizationError" => \A i \in 1 .. Len(ran) : ~ran[i].invoked

----------------------------------------------------------------------------
(* C3 *)

\* C3: the loop is left only by the end-of-input signal: raised at the
\* prompt, by the exit command, or at a prompt of login.  No other exception
\* takes control out of the loop.
C3_LoopSurvives ==
    [][(pc \in LoopPositions /\ pc' \notin LoopPositions)
          => /\ status'.exc = "EOFError"
             /\ pc' = "done"
             /\ \/ pc = "read"
                \/ /\ ran' # << >>
                   /\ Last(ran').exc = "EOFError"
                   /\ Last(ran').proc \in {w_exit, w_login}]_vars

\* an unexpected exception was printed as a traceback and prompt() returned
C3_Witness ==
    /\ Returned
    /\ status.handled = "traceback"
    /\ ran # << >>
    /\ Last(ran).exc \in {"AttributeError", "InvalidOperation", "URLError", "KeyError"}

----------------------------------------------------------------------------
(* C4 *)

\* C4: a handler is invoked if and only if the argument count is within the
\* bounds it declares; otherwise an ArityError is reported and the handler
\* is not invoked.
C4_ArityGuardsInvocation ==
    \A i \in 1 .. Len(ran) :
        LET e == ran[i]
            n == Len(e.args)
            b == DeclaredArity(e.proc)
        IN  /\ e.invoked <=> (b.min <= n /\ (b.max = -1 \/ n <= b.max))
            /\ ~e.invoked => (e.exc = "ArityError" /\ e.out = e.msg /\ e.printed = << >>)
            /\ e.invoked => e.exc # "ArityError"

\* one command with too few and one with too many arguments were refused,
\* and a command with arguments was invoked
C4_Witness ==
    /\ \E i \in 1 .. Len(ran) : ~ran[i].invoked /\ ran[i].proc = w_buy /\ ran[i].args = << >>
    /\ \E i \in 1 .. Len(ran) : ~ran[i].invoked /\ ran[i].proc = w_logout /\ Len(ran[i].args) = 1

----------------------------------------------------------------------------
(* C5 *)

----------------------------------------------------------------------------
(* C6 *)

\* C6: only a ';' matched by the separator rule splits a line: on a line
\* that ran to its end, the commands dispatched are the segments between
\* the tokens the separator rule made, an escaped or quoted ';' being a
\* command name or an argument.
C6_OnlyBareSemicolonSeparates ==
    LineFinished => DispatchedCommands = SegmentsOf(Lexemes(line))

----------------------------------------------------------------------------
(* C7 *)

\* C7: the parser yields exactly the non-empty segments of the token
\* sequence between its separator tokens, in order, the first token of a
\* segment as the command name and the rest as its arguments; a line that
\* ran to its end had exactly these commands dispatched.
C7_ParserYieldsSegments ==
    Returned =>
        LET t == tokenize_all(line, << >>) IN
        /\ t.exc = "none" =>
              parse_tokens(t.tokens, None, << >>) = SegmentsOf(Marked(t.tokens))
        /\ LineFinished => DispatchedCommands = SegmentsOf(Marked(t.tokens))

\* a line of two commands, the second with two arguments, ran to its end
C7_Witness ==
    /\ LineFinished
    /\ Len(ran) = 2
    /\ Len(ran[1].args) = 0
    /\ Len(ran[2].args) = 2

----------------------------------------------------------------------------
(* C8 *)

\* C8: without credentials, a command that requires them, called with a
\* correct argument count, reports the 'no login credentials' message and
\* sends no request, and the line goes on.
C8_NoCredentialsReported ==
    \A i \in 1 .. Len(ran) :
        (ran[i].proc \in CredentialCommands /\ ran[i].invoked
            /\ ran[i].creds = NoCredentials)
        => /\ ran[i].exc = "NoCredentialsError"
           /\ ran[i].out =
                 <<"No login credentials entered. Use the login command first.">>
           /\ ~ran[i].sent

----------------------------------------------------------------------------
(* C9 *)

\* C9: a reply that reports an error gives the 'rejected the login
\* credentials' message when it is the invalid-login reply and
\* 'Exchange error: m' for any other message m; the command prints no
\* result and the loop goes on with the next command or prompt.
C9_ReportedErrorClassified ==
    \A i \in 1 .. Len(ran) :
        (ran[i].sent /\ ran[i].reply.transport /\ ran[i].reply.error # << >>)
        => /\ IF ran[i].reply.error = <<"Must be logged in">>
              THEN /\ ran[i].exc = "LoginError"
                   /\ ran[i].out =
                        <<"The exchange rejected the login credentials. Maybe you made a typo?">>
              ELSE /\ ran[i].exc = "ExchangeError"
                   /\ ran[i].out = <<"Exchange error: %s">> \o ran[i].reply.error
           /\ ran[i].printed = << >>
           /\ i = Len(ran) =>
                 /\ pc \in {"next", "call", "returned"}
                 /\ Returned => ~CommandLeft

\* both kinds of reported error were met on one line
C9_Witness ==
    /\ Len(ran) = 2
    /\ ran[1].sent /\ ran[1].reply.error = <<"Must be logged in">>
    /\ ran[2].sent /\ ran[2].reply.error = <<"insufficient funds">>

----------------------------------------------------------------------------
(* C10 *)

\* C10: the credentials are absent or a pair of a non-empty username and a
\* non-empty password; set_credentials with an empty username or password
\* fails and leaves the credentials as they are.
C10_CredentialsWellFormed ==
    /\ \/ credentials = NoCredentials
       \/ /\ Len(credentials) = 2
          /\ credentials[1] # << >>
          /\ credentials[2] # << >>
    /\ \A u \in TypedNames, p \in TypedPasswords :
          (u = << >> \/ p = << >>) =>
              /\ set_credentials(credentials, u, p).exc = "ValueError"
              /\ set_credentials(credentials, u, p).creds = credentials

\* login was given the empty string as its argument, asked for the
\* username, and credentials were stored
C10_Witness ==
    /\ credentials # NoCredentials
    /\ ran # << >>
    /\ Last(ran).proc = w_login
    /\ Last(ran).args = << << >> >>
    /\ Last(ran).exc = "none"

----------------------------------------------------------------------------
(* C11 *)

\* C11: the stored credentials change only in the step in which the login
\* handler or the logout handler completes without an error; every other
\* step (a command that succeeds or fails, a rejected login reply, an
\* exchange error, an arity error, a syntax error, an interrupted login)
\* leaves them exactly as they were.
C11_OnlyLoginLogoutChangeCredentials ==
    [][credentials' # credentials
          => /\ ran' # << >>
             /\ Last(ran').invoked
             /\ Last(ran').exc = "none"
             /\ \/ pc = "login_pass" /\ Last(ran').proc = w_login
                \/ pc = "call" /\ Last(ran').proc = w_logout]_vars

\* with credentials stored, the exchange rejected them and they are still
\* stored
C11_Witness ==
    /\ credentials # NoCredentials
    /\ ran # << >>
    /\ Last(ran).exc = "LoginError"
    /\ Last(ran).creds = credentials

----------------------------------------------------------------------------
(* C12 *)

\* the prompt the stored credentials call for: the username followed by
\* '$ ', or '$ ' alone when none are stored
ExpectedPrompt(creds) ==
    (IF creds = NoCredentials THEN << >> ELSE creds[1]) \o <<"$", " ">>

\* C12: at every Read step the prompt text is the username of the stored
\* credentials followed by '$ ', or '$ ' alone when no credentials are
\* stored; after a logout command have_credentials() is false, and it stays
\* false up to the next Read step, whose prompt shows no username.
C12_PromptShowsUsername ==
    /\ []((ran # << >> /\ Last(ran).proc = w_logout /\ Last(ran).invoked)
            => (~have_credentials(credentials) /\ pc \in {"next", "call", "returned"}))
    /\ [][(pc = "read" /\ pc' # "read") => text' = ExpectedPrompt(credentials)]_vars
    /\ [][pc = "returned" => (credentials' = credentials /\ pc' = "read")]_vars

\* the prompt showed the username, and logout was called on that line
C12_Witness ==
    /\ text = <<"a", "$", " ">>
    /\ ran # << >>
    /\ Last(ran).proc = w_logout
    /\ Last(ran).invoked
    /\ ~have_credentials(credentials)

----------------------------------------------------------------------------
(* C13 *)

\* C13: help with no argument completes without raising an error and
\* prints the complete list of the registered command names, in any login
\* state, and so the same list every time it is called.
C13_HelpListsCommands ==
    \A i \in 1 .. Len(ran) :
        (ran[i].proc = w_help /\ ran[i].invoked /\ ran[i].args = << >>)
        => /\ ran[i].exc = "none"
           /\ {ran[i].printed[k] : k \in 1 .. Len(ran[i].printed)} = Commands

----------------------------------------------------------------------------
(* C14 *)

\* C14: the end of input at the prompt prints 'exit' and ends the loop
\* cleanly with no command executed; exit with no argument ends the loop in
\* the same way, and no command after it on the line is executed; the
\* end-of-input signal is never reported by the per-command clauses, nor
\* printed by the per-line ones.
C14_ExitEndsLoopCleanly ==
    /\ status.shown = <<"exit">> =>
          (pc = "done" /\ status.exc = "EOFError" /\ ran = << >>)
    /\ \A i \in 1 .. Len(ran) :
          (ran[i].proc = w_exit /\ ran[i].invoked) =>
              /\ ran[i].args = << >>
              /\ i = Len(ran)
              /\ ran[i].exc = "EOFError"
              /\ pc = "done"
    /\ status.exc = "EOFError" => (pc = "done" /\ status.handled = "raise")
    /\ \A i \in 1 .. Len(ran) :
          ran[i].exc = "EOFError" => ran[i].out = <<"raise">>
    /\ pc = "done" => status.exc = "EOFError"

\* exit ended the loop with a command of the line still behind it
C14_Witness ==
    /\ pc = "done"
    /\ ran # << >>
    /\ Last(ran).proc = w_exit
    /\ Last(ran).invoked
    /\ CommandLeft

----------------------------------------------------------------------------
(* C15 *)

\* C15: in a naked word a backslash escapes whatever character follows it:
\* for every character c the line a\c is tokenized without a syntax error
\* to the one word 'ac', the backslash removed and c kept.
C15_BackslashEscapesAnyCharacter ==
    \A c \in Alphabet :
        (pc \in {"returned", "done", "crashed"} /\ line = <<"a", "\\", c>>)
        => /\ status.exc # "TokenizationError"
           /\ tokenize_all(line, << >>).exc = "none"
           /\ tokenize_all(line, << >>).tokens = << <<"a", c>> >>

----------------------------------------------------------------------------
(* C16 *)

\* body, the text between two quotes q, uses only the recognized escapes
\* (backslash-backslash and backslash-q) and holds no bare q
RECURSIVE WellEscaped(_, _)
WellEscaped(body, q) ==
    IF body = << >> THEN TRUE
    ELSE IF body[1] = "\\"
         THEN Len(body) >= 2 /\ body[2] \in {"\\", q} /\ WellEscaped(Drop(body, 2), q)
         ELSE body[1] # q /\ WellEscaped(Tail(body), q)

\* a well-escaped body with each escape replaced by the escaped character
RECURSIVE Unescaped(_)
Unescaped(body) ==
    IF body = << >> THEN << >>
    ELSE IF body[1] = "\\" THEN <<body[2]>> \o Unescaped(Drop(body, 2))
    ELSE <<body[1]>> \o Unescaped(Tail(body))

\* C16: a quoted string that is closed and uses only its recognized escapes
\* gives exactly one token: the content between the quotes with each escape
\* collapsed and the quotes removed; whitespace, ';', '#' and the other
\* quote inside it are kept and neither split the token nor start a comment.
\* Checked for the string alone on the line and for the string after 'a '.
C16_QuotedStringIsOneToken ==
    \A q \in {"\"", "'"} : \A pre \in {<< >>, <<"a", " ">>} :
        LET n == Len(pre)
            body == SubSeq(line, n + 2, Len(line) - 1)
            t == tokenize_all(line, << >>)
        IN  (/\ Len(line) >= n + 2
             /\ SubSeq(line, 1, n) = pre
             /\ line[n + 1] = q
             /\ Last(line) = q
             /\ WellEscaped(body, q))
            => /\ t.exc = "none"
               /\ t.tokens = (IF pre = << >> THEN << >> ELSE << <<"a">> >>)
                                \o <<Unescaped(body)>>

\* the quoted string of ';' and '#' was one token, the command name
C16_Witness ==
    /\ LineFinished
    /\ line = <<"\"", ";", "#", "\"">>
    /\ Len(ran) = 1
    /\ ran[1].cmd = <<";", "#">>

----------------------------------------------------------------------------
(* C17 *)

\* the total length of the raw matches (tokens, whitespace and comments)
\* the rules consume from the start of s before a step fails or s ends
RECURSIVE Consumed(_)
Consumed(s) ==
    IF s = << >> THEN 0
    ELSE LET t == tokenize_step(s) IN
         IF ~t.found \/ Len(t.raw) = 0 THEN 0
         ELSE Len(t.raw) + Consumed(t.remaining)

\* a character that opens no quote, escape or comment
PlainChar(c) == c \notin {"\\", "\"", "'", "#"}

\* l ends in a backslash that stands outside quotes and comments and
\* escapes nothing
StrayBackslashAtEnd(l) ==
    /\ l # << >>
    /\ Last(l) = "\\"
    /\ \A j \in 1 .. Len(l) - 1 : PlainChar(l[j])

\* l[i] opens a quoted string outside quotes and comments, and no quote of
\* its kind follows
UnmatchedQuoteAt(l, i) ==
    /\ l[i] \in {"\"", "'"}
    /\ \A j \in 1 .. i - 1 : PlainChar(l[j])
    /\ \A j \in i + 1 .. Len(l) : l[j] # l[i]

\* C17: when tokenization fails, the reported offset is the index of the
\* first character no rule consumes, the total length of the raw matches
\* consumed before it; a line with a stray backslash at its end fails at
\* the index of that backslash and a line with an unmatched quote at the
\* index of the opening quote.
C17_SyntaxErrorOffset ==
    LET t == tokenize_all(line, << >>) IN
    /\ status.exc = "TokenizationError" =>
          /\ caret = Consumed(line)
          /\ caret < Len(line)
          /\ \A k \in TokenTypes : pattern_match(k, Drop(line, caret)) = -1
          /\ StrayBackslashAtEnd(line) => caret = Len(line) - 1
          /\ \A i \in 1 .. Len(line) : UnmatchedQuoteAt(line, i) => caret = i - 1
    /\ StrayBackslashAtEnd(line) =>
          (t.exc = "TokenizationError" /\ Len(line) - Len(t.remaining) = Len(line) - 1)
    /\ \A i \in 1 .. Len(line) : UnmatchedQuoteAt(line, i) =>
          (t.exc = "TokenizationError" /\ Len(line) - Len(t.remaining) = i - 1)

\* a command of the line had run when the stray backslash at its end was
\* reported
C17_Witness ==
    /\ status.exc = "TokenizationError"
    /\ StrayBackslashAtEnd(line)
    /\ ran # << >>
    /\ caret = Len(line) - 1
    /\ caret >= 2

----------------------------------------------------------------------------
(* C18 *)

\* the range R of the error text: 'min' when min = max, 'min+' when the
\* maximum is unbounded (-1), 'min-max' otherwise
ExpectedRange(min, max) ==
    IF min = max THEN ToString(min)
    ELSE IF max = -1 THEN ToString(min) \o "+"
    ELSE ToString(min) \o "-" \o ToString(max)

\* the noun A: singular exactly when R is '1'
ExpectedNoun(R) == IF R = "1" THEN "argument" ELSE "arguments"

\* 'Expected R A, got n.'
ExpectedArityText(min, max, n) ==
    "Expected " \o ExpectedRange(min, max) \o " "
        \o ExpectedNoun(ExpectedRange(min, max)) \o ", got " \o ToString(n) \o "."

\* the arities (min, max) with min and a bounded max up to MaxArity
Arities ==
    {[min |-> a, max |-> b] : a \in 0 .. MaxArity, b \in -1 .. MaxArity}
        \ {r \in [min : 0 .. MaxArity, max : -1 .. MaxArity] : r.max # -1 /\ r.max < r.min}

\* C18: for every declared arity (min, max) and count n outside it the
\* error text is 'Expected R A, got n.', R being 'min' when min = max,
\* 'min+' when max is unbounded and 'min-max' otherwise, and A the singular
\* 'argument' exactly when R is '1'.  The two parts of the text are compared
\* for every arity wherever a command is about to be dispatched, the whole
\* text for every command that was refused.
C18_ArityErrorText ==
    /\ pc = "call" =>
          \A r \in Arities :
              /\ arity_text(r) = ExpectedRange(r.min, r.max)
              /\ arg_text(r) = ExpectedNoun(ExpectedRange(r.min, r.max))
    /\ \A i \in 1 .. Len(ran) :
          ~ran[i].invoked =>
              LET b == DeclaredArity(ran[i].proc) IN
              /\ ran[i].exc = "ArityError"
              /\ ran[i].msg = <<ExpectedArityText(b.min, b.max, Len(ran[i].args))>>
              /\ ran[i].out = ran[i].msg

\* 'Expected 1 argument, got 0.' and 'Expected 0-1 arguments, got 2.' were
\* reported on one line
C18_Witness ==
    /\ Len(ran) = 2
    /\ ran[1].msg = <<"Expected 1 argument, got 0.">>
    /\ ran[2].msg = <<"Expected 0-1 arguments, got 2.">>

----------------------------------------------------------------------------
(* C19 *)

\* C19: main() builds the registry of the shells, takes the shell
\* registered under 'mtgox', prints the welcome text and reaches the first
\* Read step without raising an error: no exception leaves main() before a
\* prompt was shown.
C19_StartupReachesPrompt ==
    ~(pc = "crashed" /\ status.handled = "raise" /\ text = << >>)

----------------------------------------------------------------------------
(* C20 *)

\* the number of turns of `while remaining` the tokenizer makes on s, the
\* failing one counted
RECURSIVE Steps(_)
Steps(s) ==
    IF s = << >> THEN 0
    ELSE LET t == tokenize_step(s) IN
         IF ~t.found \/ Len(t.raw) = 0 THEN 1
         ELSE 1 + Steps(t.remaining)

\* the texts the tokenizer can stand on while it reads l
Suffixes(l) == {Drop(l, n) : n \in 0 .. Len(l)}

\* raw_input has returned the line and the tokenizer has not started on it
LineJustRead == pc = "next" /\ remaining = line /\ ran = << >>

\* C20: tokenizing a line terminates: at every position no rule matches
\* the empty text, so each step consumes at least one character of the
\* remaining input or raises the syntax error, the 'empty token' assertion
\* never fails, and the steps are at most as many as the characters.
\* Every line is looked at when it is read, at each of its positions; the
\* steps the tokenizer then takes on it are looked at as it takes them.
C20_TokenizerTerminates ==
    /\ status.exc # "AssertionError"
    /\ LineJustRead =>
          /\ tokenize_all(line, << >>).exc # "AssertionError"
          /\ \A s \in Suffixes(line) :
                /\ \A k \in TokenTypes : pattern_match(k, s) # 0
                /\ LET t == tokenize_step(s) IN
                   t.found =>
                       /\ Len(t.raw) >= 1
                       /\ Len(t.remaining) < Len(s)
                       /\ t.raw \o t.remaining = s
          /\ Steps(line) <= Len(line)
    /\ pc = "next" =>
          LET t == tokenize_step(remaining) IN
          (remaining # << >> /\ t.found) => Len(t.remaining) < Len(remaining)
    /\ Len(remaining) <= Len(line)

\* a line of the greatest length was read to its end one character a step
C20_Witness ==
    /\ LineFinished
    /\ Len(line) = MaxLen
    /\ Steps(line) = MaxLen
    /\ ran # << >>

====
